---- MODULE Spec2Model ----
(***************************************************************************)
(* A model of the ratelimit_meter crate: the GCRA and leaky-bucket         *)
(* algorithms, the direct rate limiter whose clones share one bucket       *)
(* state, and the keyed rate limiter that keeps one bucket per key.        *)
(*                                                                         *)
(* Instants and Durations are integers counted in the Duration's           *)
(* resolution (nanoseconds in the crate).  Option<T> is a sequence of      *)
(* length at most one.                                                     *)
(***************************************************************************)
EXTENDS Integers, Sequences, FiniteSets, TLC

\* ---------------------------------------------------------------- bounds
MaxCapacity == 3
MaxWeight == 2
MaxPeriod == 4
MaxTime == 4
MaxBatch == 3
MaxCalls == 4

Capacities == 1..MaxCapacity
Weights == 1..MaxWeight
Periods == 1..MaxPeriod
Times == 0..MaxTime
Batches == 0..MaxBatch

\* ---------------------------------------------------------------- Option
None == <<>>
Some(x) == <<x>>
is_some(o) == o # <<>>
unwrap_or(o, d) == IF o = <<>> THEN d ELSE o[1]

cmp_max(a, b) == IF a >= b THEN a ELSE b
cmp_min(a, b) == IF a <= b THEN a ELSE b

\* ---------------------------------------------------------------- decisions
\* Ok(()) of a check.
Ok == [kind |-> "Ok"]

\* NonConformance::new(t0, min_time)
NonConformance_new(t0, min_time) ==
  [kind |-> "NonConformance", t0 |-> t0, min_time |-> min_time]

\* NonConformance::earliest_possible
earliest_possible(nc) == nc.t0 + nc.min_time

\* NonConformance::wait_time_from
wait_time_from(nc, from) ==
  IF from = nc.t0 THEN nc.min_time
  ELSE IF from < nc.t0 + nc.min_time THEN (nc.t0 + nc.min_time) - from
  ELSE 0

\* NegativeMultiDecision::BatchNonConforming(n, nc)
BatchNonConforming(n, nc) == [kind |-> "BatchNonConforming", n |-> n, nc |-> nc]

\* NegativeMultiDecision::InsufficientCapacity(n)
InsufficientCapacity(n) == [kind |-> "InsufficientCapacity", n |-> n]

\* Decision::No(wait_period) of the leaky bucket.
Decision_No(wait_period) == [kind |-> "No", wait |-> wait_period]

\* TooEarly(t0, wait): the leaky bucket's rejection as a NonConformance,
\* built from the instant the bucket answered from and the wait it computed.
TooEarly(state, t0, no) ==
  [kind |-> "TooEarly", t0 |-> IF is_some(state.last_update) /\ state.last_update[1] > t0
                                 THEN state.last_update[1] ELSE t0,
   wait |-> no.wait]

\* TooEarly::earliest_possible
TooEarly_earliest_possible(nc) == nc.t0 + nc.wait

\* NonConformance::wait_time_from, the trait's default:
\* earliest.duration_since(earliest.min(from))
NonConformance_wait_time_from(earliest, from) ==
  earliest - (IF earliest <= from THEN earliest ELSE from)

\* panic!("bug: There's a non-conforming batch: ...")
Panic == [kind |-> "Panic"]

is_ok(res) == res.kind = "Ok"
IsInsufficient(res) == res.kind = "InsufficientCapacity"
IsNonConforming(res) == res.kind \in {"NonConformance", "BatchNonConforming", "No"}

\* ---------------------------------------------------------------- GCRA
\* Builder::cell_weight: the weight the builder ends up with.
Builder_cell_weight(capacity, cell_weight, weight) ==
  IF cell_weight > capacity
    THEN [ok |-> FALSE, cell_weight |-> cell_weight]
    ELSE [ok |-> TRUE, cell_weight |-> weight]

\* Builder::build: GCRA { t, tau, tat: null }
GCRA_build(capacity, cell_weight, time_unit) ==
  [alg |-> "GCRA",
   t |-> (time_unit \div capacity) * cell_weight,
   tau |-> time_unit]

\* Arc::new(Atomic::null())
GCRA_default_state == [tat |-> None]

\* GCRA::test_and_update reporting one emission interval as the wait,
\* whatever the stored arrival time.
GCRA_test_and_update_pass_wait_t(p, state, t0) ==
  LET tat == unwrap_or(state.tat, t0) IN
    IF t0 < tat - p.tau
      THEN [decision |-> NonConformance_new(t0, p.t), new |-> None]
      ELSE [decision |-> Ok, new |-> Some([tat |-> Some(cmp_max(tat, t0) + p.t)])]

\* GCRA::test_and_update storing the arrival time without adding the
\* emission interval for the cell it admits.
GCRA_test_and_update_pass_keep_tat(p, state, t0) ==
  LET tat == unwrap_or(state.tat, t0) IN
    IF t0 < tat - p.tau
      THEN [decision |-> NonConformance_new(t0, tat - t0), new |-> None]
      ELSE [decision |-> Ok, new |-> Some([tat |-> Some(cmp_max(tat, t0))])]

\* One pass of the loop of GCRA::test_and_update on the value loaded from
\* self.tat: the decision, and the value handed to cas_and_ref (None when
\* the pass returns without storing).
GCRA_test_and_update_pass(p, state, t0) ==
  LET tat == unwrap_or(state.tat, t0) IN
    IF t0 < tat - p.tau
      THEN [decision |-> NonConformance_new(t0, tat - t0), new |-> None]
      ELSE [decision |-> Ok, new |-> Some([tat |-> Some(cmp_max(tat, t0) + p.t)])]

\* GCRA::test_n_and_update storing the new arrival time before it finds
\* the batch non-conforming.
GCRA_test_n_and_update_pass_store_first(p, state, n, t0) ==
  LET tat_there == unwrap_or(state.tat, t0)
      weight == p.t * (n - 1)
      insufficient == n >= 2 /\ (weight + p.t) > p.tau
      tat == IF n = 0 THEN t0 ELSE IF n = 1 THEN tat_there ELSE tat_there + weight
      additional_weight == IF n = 0 THEN 0 ELSE IF n = 1 THEN p.t ELSE p.t * n
      stored == Some([tat |-> Some(cmp_max(tat, t0) + additional_weight)])
  IN
    IF insufficient
      THEN [decision |-> InsufficientCapacity(n), new |-> None]
    ELSE IF t0 < tat - p.tau
      THEN [decision |-> BatchNonConforming(n, NonConformance_new(t0, tat - t0)),
            new |-> stored]
      ELSE [decision |-> Ok, new |-> stored]

\* One pass of the loop of GCRA::test_n_and_update.
GCRA_test_n_and_update_pass(p, state, n, t0) ==
  LET tat_there == unwrap_or(state.tat, t0)
      weight == p.t * (n - 1)
      insufficient == n >= 2 /\ (weight + p.t) > p.tau
      tat == IF n = 0 THEN t0 ELSE IF n = 1 THEN tat_there ELSE tat_there + weight
      additional_weight == IF n = 0 THEN 0 ELSE IF n = 1 THEN p.t ELSE p.t * n
  IN
    IF insufficient
      THEN [decision |-> InsufficientCapacity(n), new |-> None]
    ELSE IF t0 < tat - p.tau
      THEN [decision |-> BatchNonConforming(n, NonConformance_new(t0, tat - t0)),
            new |-> None]
      ELSE [decision |-> Ok,
            new |-> Some([tat |-> Some(cmp_max(tat, t0) + additional_weight)])]

\* ---------------------------------------------------------------- LeakyBucket
\* LeakyBucket::new
LeakyBucket_new(capacity, per_duration) ==
  [alg |-> "LeakyBucket",
   token_interval |-> per_duration \div capacity,
   full |-> per_duration]

\* BucketState { level: 0, last_update: None }
LeakyBucket_default_state == [level |-> 0, last_update |-> None]

\* The capacity test left out: every batch size goes on to the bucket.
LeakyBucket_insufficient_never(p, n) == FALSE

\* The capacity test turning away a batch that fills the bucket exactly.
LeakyBucket_insufficient_at_full(p, n) == p.token_interval * n >= p.full

\* let weight = self.token_interval * n; if weight > self.full { ... }
LeakyBucket_insufficient(p, n) == p.token_interval * n > p.full

\* let t0 = cmp::max(t0, last), the instant the bucket answers from.
LeakyBucket_clamped_t0(state, t0) == cmp_max(t0, unwrap_or(state.last_update, t0))

\* No drip at all: the level stays what the last admission left.
LeakyBucket_dripped_level_never(state, t0) == state.level

\* The drip not capped at the level: the bucket drains below empty.
LeakyBucket_dripped_level_uncapped(state, t0) ==
  LET last == unwrap_or(state.last_update, t0)
      t0c == cmp_max(t0, last)
  IN state.level - (t0c - last)

\* new.level = state.level - cmp::min(t0 - last, state.level)
LeakyBucket_dripped_level(state, t0) ==
  LET last == unwrap_or(state.last_update, t0)
      t0c == cmp_max(t0, last)
  IN state.level - cmp_min(t0c - last, state.level)

\* LeakyBucket::test_n_and_update with the fit test strict: a cell that
\* fills the bucket exactly is turned away.
LeakyBucket_test_n_and_update_pass_strict(p, state, n, t0) ==
  LET weight == p.token_interval * n
      new_level == LeakyBucket_dripped_level(state, t0)
  IN
    IF weight + new_level < p.full
      THEN [decision |-> Ok,
            new |-> Some([level |-> new_level + weight, last_update |-> Some(t0)])]
      ELSE [decision |-> Decision_No((weight + new_level) - p.full), new |-> None]

\* One pass of the loop of LeakyBucket::test_n_and_update on the loaded
\* state; `new` was built before the loop with last_update: Some(t0).
LeakyBucket_test_n_and_update_pass(p, state, n, t0) ==
  LET weight == p.token_interval * n
      new_level == LeakyBucket_dripped_level(state, t0)
  IN
    IF weight + new_level <= p.full
      THEN [decision |-> Ok,
            new |-> Some([level |-> new_level + weight, last_update |-> Some(t0)])]
      ELSE [decision |-> Decision_No((weight + new_level) - p.full), new |-> None]

\* ---------------------------------------------------------------- dispatch
default_state(p) ==
  IF p.alg = "GCRA" THEN GCRA_default_state ELSE LeakyBucket_default_state

\* MultiDeciderImpl::test_n_and_update, one pass over the loaded state.
test_n_and_update_pass(p, state, n, t0) ==
  IF p.alg = "GCRA" THEN GCRA_test_n_and_update_pass(p, state, n, t0)
  ELSE IF LeakyBucket_insufficient(p, n)
    THEN [decision |-> InsufficientCapacity(n), new |-> None]
    ELSE LeakyBucket_test_n_and_update_pass(p, state, n, t0)

\* ImpliedDeciderImpl's test_and_update: what it makes of the batch result.
implied_single(res) ==
  IF res.kind = "Ok" THEN Ok
  ELSE IF res.kind = "BatchNonConforming" /\ res.n = 1 THEN res.nc
  ELSE IF res.kind = "No" THEN res
  ELSE Panic

\* DeciderImpl::test_and_update, one pass over the loaded state.
test_and_update_pass(p, state, t0) ==
  IF p.alg = "GCRA" THEN GCRA_test_and_update_pass(p, state, t0)
  ELSE LET r == test_n_and_update_pass(p, state, 1, t0)
       IN [decision |-> implied_single(r.decision), new |-> r.new]

\* A call: op = "check_at" is the single-cell path, "check_n_at" the batch.
check_pass(p, state, op, n, t0) ==
  IF op = "check_at" THEN test_and_update_pass(p, state, t0)
  ELSE test_n_and_update_pass(p, state, n, t0)

\* The state a pass leaves when its cas_and_ref succeeds (always, when no
\* other thread runs).
committed(state, pass) == IF pass.new = None THEN state ELSE pass.new[1]

\* ---------------------------------------------------------------- state
VARIABLES
  config,   \* what the limiter was built from: alg, capacity, cell_weight, per
  params,   \* the algorithm's parameters (GCRA: t, tau; LeakyBucket: token_interval, full)
  state,    \* the direct limiter's bucket state when one caller is at work
  last,     \* the last completed call: op, n, at, the state before it, its result
  calls,    \* number of calls made so far
  burst,    \* k single-cell checks, all at instant `at`, since the bucket was fresh
  hist,     \* what the single-cell checks since the bucket was fresh add up to
  cell,     \* the bucket state shared by the clones: the Atomic's pointer and value
            \* (ThreadsafeWrapper: the Mutex's holder, its data, the states committed)
  th,       \* the threads working on clones of the limiter
  map_reader,  \* the keyed limiter's map as its read handle shows it: key -> Option<bucket>
  map_writer,  \* the Mutex around the map's write handle: the thread holding it, or 0
  buckets,     \* the bucket states made for keys, in the order they were made
  inserted     \* per key, the checks that inserted an entry for it, in order

seqVars == <<state, last, calls, burst, hist>>
concVars == <<cell, th>>
keyedVars == <<map_reader, map_writer, buckets, inserted>>
vars == <<config, params, seqVars, concVars, keyedVars>>

Algorithms == {"GCRA", "LeakyBucket"}

\* The limiters the constructors can build: GCRA::for_capacity(capacity)
\* .cell_weight(w).per(per).build(), LeakyBucket::new(capacity, per).
Configs ==
  {[alg |-> "GCRA", capacity |-> c, cell_weight |-> w, per |-> d] :
     c \in Capacities, w \in Weights, d \in Periods}
  \cup
  {[alg |-> "LeakyBucket", capacity |-> c, cell_weight |-> 1, per |-> d] :
     c \in Capacities, d \in Periods}

construct(cfg) ==
  IF cfg.alg = "GCRA"
    THEN GCRA_build(cfg.capacity,
                    Builder_cell_weight(cfg.capacity, 1, cfg.cell_weight).cell_weight,
                    cfg.per)
    ELSE LeakyBucket_new(cfg.capacity, cfg.per)

NoBurst == [k |-> 0 - 1, at |-> 0]
\* paced: k single-cell checks so far, each one emission / token interval
\* after the one before, the last at `at`.  singles: only single-cell checks
\* so far, k of them accepted, the first accepted at `first`, the latest at
\* `prev`.  k = -1: the calls so far were not of that shape.  ordered: k
\* calls so far, none at an earlier instant than the one before it, the
\* latest at `at`; admitted lists the accepted ones, each with its instant
\* and its number of cells.  The list is kept for the caller of SpecOrdered;
\* k = -1: it is not kept, or the calls so far were not of that shape.
FreshHist == [paced |-> [k |-> 0, at |-> 0], singles |-> [k |-> 0, first |-> 0, prev |-> 0],
              ordered |-> [k |-> 0 - 1, at |-> 0, admitted |-> <<>>]]
OrderedHist == [FreshHist EXCEPT !.ordered = [k |-> 0, at |-> 0, admitted |-> <<>>]]
NoHist == [paced |-> [k |-> 0 - 1, at |-> 0], singles |-> [k |-> 0 - 1, first |-> 0, prev |-> 0],
           ordered |-> [k |-> 0 - 1, at |-> 0, admitted |-> <<>>]]
NoCall(p) == [op |-> "none", n |-> 0, at |-> 0, pre |-> default_state(p), res |-> Ok,
              retry |-> FALSE, burst |-> NoBurst, hist |-> NoHist, jittered |-> None]
NoThreads == <<>>
NoCell(p) == [ptr |-> 0, val |-> default_state(p)]

\* No keyed limiter is at work.
NoKeys ==
  /\ map_reader = <<>>
  /\ map_writer = 0
  /\ buckets = <<>>
  /\ inserted = <<>>

InitLimiter ==
  /\ config \in Configs
  /\ params = construct(config)

\* ---------------------------------------------------------------- one caller
Init ==
  /\ InitLimiter
  /\ state = default_state(params)
  /\ last = NoCall(params)
  /\ calls = 0
  /\ burst = [k |-> 0, at |-> 0]
  /\ hist = FreshHist
  /\ cell = NoCell(params)
  /\ th = NoThreads
  /\ NoKeys

\* The emission interval T of GCRA, the token interval of the leaky bucket.
interval(p) == IF p.alg = "GCRA" THEN p.t ELSE p.token_interval

ordered_after(o, n, at, res) ==
  IF o.k >= 0 /\ at >= o.at
    THEN [k |-> o.k + 1, at |-> at,
          admitted |-> IF is_ok(res) THEN Append(o.admitted, [at |-> at, n |-> n])
                                     ELSE o.admitted]
    ELSE NoHist.ordered

hist_after(h, p, op, n, at, res) ==
  [paced |->
     IF op = "check_at" /\ h.paced.k >= 0 /\ (h.paced.k = 0 \/ at = h.paced.at + interval(p))
       THEN [k |-> h.paced.k + 1, at |-> at]
       ELSE NoHist.paced,
   singles |->
     IF op = "check_at" /\ h.singles.k >= 0
       THEN IF is_ok(res)
              THEN [k |-> h.singles.k + 1,
                    first |-> IF h.singles.k = 0 THEN at ELSE h.singles.first,
                    prev |-> at]
              ELSE h.singles
       ELSE NoHist.singles,
   ordered |-> ordered_after(h.ordered, n, at, res)]

burst_after(b, op, at) ==
  IF op = "check_at" /\ b.k >= 0 /\ (b.k = 0 \/ b.at = at)
    THEN [k |-> b.k + 1, at |-> at]
    ELSE NoBurst

\* DirectRateLimiter::check_at / check_n_at with nobody else at work.
Call(op, n, at, retry) ==
  LET pass == check_pass(params, state, op, n, at) IN
    /\ calls < MaxCalls
    /\ state' = committed(state, pass)
    /\ last' = [op |-> op, n |-> n, at |-> at, pre |-> state, res |-> pass.decision,
                retry |-> retry, burst |-> burst, hist |-> hist, jittered |-> None]
    /\ calls' = calls + 1
    /\ burst' = burst_after(burst, op, at)
    /\ hist' = hist_after(hist, params, op, n, at, pass.decision)
    /\ UNCHANGED <<config, params, concVars, keyedVars>>

CheckAt == \E at \in Times : Call("check_at", 1, at, FALSE)

CheckNAt == \E n \in Batches, at \in Times : Call("check_n_at", n, at, FALSE)

\* The rejection a caller holds after the call `c`, as a NonConformance.
rejection(c) ==
  IF c.res.kind = "BatchNonConforming" THEN c.res.nc
  ELSE IF c.res.kind = "No" THEN TooEarly(c.pre, c.at, c.res)
  ELSE c.res

\* nc.wait_time_from(from) for the rejection of either algorithm.
nc_wait_time_from(nc, from) ==
  IF nc.kind = "TooEarly"
    THEN NonConformance_wait_time_from(TooEarly_earliest_possible(nc), from)
    ELSE wait_time_from(nc, from)

nc_earliest_possible(nc) ==
  IF nc.kind = "TooEarly" THEN TooEarly_earliest_possible(nc) ELSE earliest_possible(nc)

\* The caller repeats a rejected check after the wait the rejection reports:
\* now += wait.wait_time_from(now); check_at(now).
Retry ==
  /\ IsNonConforming(last.res)
  /\ Call(last.op, last.n, last.at + nc_wait_time_from(rejection(last), last.at), TRUE)

Next == CheckAt \/ CheckNAt \/ Retry

Spec == Init /\ [][Next]_vars

\* ---------------------------------------------------------------- one caller, GCRA, admissions listed
\* One caller of a GCRA limiter; the calls it makes are listed in
\* hist.ordered for as long as its instants do not go backwards.
InitOrdered ==
  /\ InitLimiter
  /\ config.alg = "GCRA"
  /\ state = default_state(params)
  /\ last = NoCall(params)
  /\ calls = 0
  /\ burst = [k |-> 0, at |-> 0]
  /\ hist = OrderedHist
  /\ cell = NoCell(params)
  /\ th = NoThreads
  /\ NoKeys

SpecOrdered == InitOrdered /\ [][Next]_vars

\* ---------------------------------------------------------------- one caller, jitter
\* The caller applies jitter to the decisions it gets:
\* limiter.check_at(t).jitter(&jitter).  last.jittered is the
\* NonConformanceWithJitter it then holds, additional being the duration its
\* OnceCell was initialised with by Jitter::get.
MaxJitterMin == 1
MaxJitterInterval == 1

\* Jitter::new(min, interval); Jitter::up_to(max) is Jitter::new(0, max).
Jitter_new(min, ival) == [min |-> min, interval |-> ival]

Jitters == {Jitter_new(min, ival) : min \in 0..MaxJitterMin, ival \in 0..MaxJitterInterval}

\* Jitter::get: self.min + self.interval.mul_f32(range), range a random f32
\* of [0, 1); the durations it can return.
Jitter_get(jitter) == {jitter.min + x : x \in 0..jitter.interval}

\* NonConformanceWithJitter::new(inner, jitter), its OnceCell initialised.
NonConformanceWithJitter_new(inner, jitter, additional) ==
  [kind |-> "NonConformanceWithJitter", inner |-> inner, jitter |-> jitter,
   additional |-> additional]

\* self.inner.earliest_possible() + self.additional_wait_time()
NonConformanceWithJitter_earliest_possible(j) ==
  nc_earliest_possible(j.inner) + j.additional

\* self.inner.wait_time_from(from) + self.additional_wait_time()
NonConformanceWithJitter_wait_time_from(j, from) ==
  nc_wait_time_from(j.inner, from) + j.additional

\* JitterResultExt::jitter / JitterMultiResultExt::jitter on the rejection
\* the last check returned.
ApplyJitter ==
  /\ IsNonConforming(last.res)
  /\ last.jittered = None
  /\ \E jitter \in Jitters : \E additional \in Jitter_get(jitter) :
       last' = [last EXCEPT !.jittered =
                  Some(NonConformanceWithJitter_new(rejection(last), jitter, additional))]
  /\ UNCHANGED <<config, params, state, calls, burst, hist, concVars, keyedVars>>

NextJitter == CheckAt \/ CheckNAt \/ Retry \/ ApplyJitter

SpecJitter == Init /\ [][NextJitter]_vars

\* ---------------------------------------------------------------- clones on threads
\* Clones of one DirectRateLimiter, one per thread, share the Atomic that
\* holds the bucket state.  `cell.ptr` is the identity of the allocation the
\* Atomic points to (0: the one made at construction; nothing is ever freed,
\* so no address comes back), `cell.val` the state stored there.  In this
\* specification `state` is the state a limiter has that applied the calls
\* one at a time, in the order in which they took effect on the cell.
NumThreads == 2
MaxThreadCalls == 3
MaxThreadTime == 2
MaxThreadBatch == 2
MaxThreadCapacity == 2
MaxThreadPeriod == 3

Threads == 1..NumThreads
ThreadTimes == 0..MaxThreadTime
ThreadBatches == 0..MaxThreadBatch

\* The limiters the threads share: cell weight 1, a few capacities and periods.
ThreadConfigs ==
  {c \in Configs : /\ c.capacity <= MaxThreadCapacity
                   /\ c.cell_weight = 1
                   /\ c.per \in (MaxThreadPeriod - 1)..MaxThreadPeriod}

\* pc: where the thread is in its call; seen: the allocation it loaded; new:
\* the state it will hand to cas_and_ref; agree: every decision it got so far
\* is the one the one-at-a-time limiter gave; admitted: its calls that
\* returned Ok(()).
IdleThread == [pc |-> "idle", op |-> "none", n |-> 0, at |-> 0, seen |-> 0,
               new |-> None, agree |-> TRUE, admitted |-> 0]

InitThreads ==
  /\ config \in ThreadConfigs
  /\ params = construct(config)
  /\ cell = NoCell(params)
  /\ th = [i \in Threads |-> IdleThread]
  /\ state = default_state(params)
  /\ last = NoCall(params)
  /\ calls = 0
  /\ burst = [k |-> 0, at |-> 0]
  /\ hist = NoHist
  /\ NoKeys

\* A thread calls check_at / check_n_at on its clone.
Begin(i, op, n, at) ==
  /\ th[i].pc = "idle"
  /\ calls < MaxThreadCalls
  /\ th' = [th EXCEPT ![i] = [@ EXCEPT !.pc = "load", !.op = op, !.n = n, !.at = at]]
  /\ calls' = calls + 1
  /\ burst' = burst_after(burst, op, at)
  /\ UNCHANGED <<config, params, cell, state, last, hist, keyedVars>>

BeginCheckAt(i) == \E at \in ThreadTimes : Begin(i, "check_at", 1, at)

BeginCheckNAt(i) == \E n \in ThreadBatches, at \in ThreadTimes : Begin(i, "check_n_at", n, at)

\* self.tat.load(Acquire) / self.state.load(Relaxed) and the pass over the
\* loaded value; a pass that stores nothing returns its decision here.
Load(i) ==
  LET t == th[i]
      pass == check_pass(params, cell.val, t.op, t.n, t.at)
      reference == check_pass(params, state, t.op, t.n, t.at)
  IN
    /\ t.pc = "load"
    /\ IF pass.new = None
         THEN th' = [th EXCEPT ![i] =
                       [@ EXCEPT !.pc = "idle",
                                 !.agree = @ /\ pass.decision = reference.decision]]
         ELSE th' = [th EXCEPT ![i] =
                       [@ EXCEPT !.pc = "cas", !.seen = cell.ptr, !.new = pass.new]]
    /\ UNCHANGED <<config, params, cell, seqVars, keyedVars>>

\* cas_and_ref compares with the allocation the Atomic holds now, whatever
\* was loaded.
cas_succeeds_blindly(current, loaded) == TRUE

\* cas_and_ref(loaded, new): succeeds when the Atomic still points to the
\* allocation that was loaded.
cas_succeeds(current, loaded) == current = loaded

\* A successful cas_and_ref: the call returns Ok(()).
CasOk(i) ==
  LET t == th[i]
      reference == check_pass(params, state, t.op, t.n, t.at)
  IN
    /\ t.pc = "cas"
    /\ cas_succeeds(cell.ptr, t.seen)
    /\ cell' = [ptr |-> cell.ptr + 1, val |-> t.new[1]]
    /\ th' = [th EXCEPT ![i] =
                [@ EXCEPT !.pc = "idle", !.new = None, !.seen = 0,
                          !.agree = @ /\ is_ok(reference.decision),
                          !.admitted = @ + 1]]
    /\ state' = committed(state, reference)
    /\ UNCHANGED <<config, params, last, calls, burst, hist, keyedVars>>

\* A failed cas_and_ref: the loop starts over.
CasFail(i) ==
  /\ th[i].pc = "cas"
  /\ ~cas_succeeds(cell.ptr, th[i].seen)
  /\ th' = [th EXCEPT ![i] = [@ EXCEPT !.pc = "load", !.new = None, !.seen = 0]]
  /\ UNCHANGED <<config, params, cell, seqVars, keyedVars>>

NextThreads ==
  \E i \in Threads :
    BeginCheckAt(i) \/ BeginCheckNAt(i) \/ Load(i) \/ CasOk(i) \/ CasFail(i)

SpecThreads == InitThreads /\ [][NextThreads]_vars

\* ---------------------------------------------------------------- claims, clones on threads
RECURSIVE sum_admitted(_)
sum_admitted(S) ==
  IF S = {} THEN 0
  ELSE LET i == CHOOSE j \in S : TRUE IN th[i].admitted + sum_admitted(S \ {i})

\* How many of k single-cell checks at instant `at`, made one after the other
\* from state s, are admitted.
RECURSIVE burst_admitted(_, _, _, _)
burst_admitted(p, s, at, k) ==
  IF k = 0 THEN 0
  ELSE LET pass == check_pass(p, s, "check_at", 1, at) IN
         (IF is_ok(pass.decision) THEN 1 ELSE 0)
           + burst_admitted(p, committed(s, pass), at, k - 1)

AllReturned == \A i \in Threads : th[i].pc = "idle"

\* C2: concurrent calls on clones of one direct rate limiter return the
\* decisions, and leave the bucket state, of a sequential execution of the
\* same calls (the order in which they took effect on the shared state), and
\* of N concurrent check_at calls at one instant on a fresh bucket exactly as
\* many are admitted as a sequential run admits.
C2_Linearizable ==
  /\ cell.val = state
  /\ \A i \in Threads : th[i].agree
  /\ (AllReturned /\ burst.k >= 1) =>
       sum_admitted(Threads) = burst_admitted(params, default_state(params), burst.at, burst.k)

\* Two calls were in flight together: one was admitted and moved the Atomic
\* on while the other still holds the allocation it loaded before.
C2_Witness ==
  \E i, j \in Threads :
    /\ i # j
    /\ th[i].admitted >= 1
    /\ th[j].pc = "cas"
    /\ th[j].seen # cell.ptr
    /\ th[j].new[1] # cell.val

\* C9: LeakyBucket: in every reachable state, after any sequence of check_at /
\* check_n_at calls from any number of threads, 0 <= level <= full (also for
\* a state a thread is about to store).
C9_LevelWithinBucket ==
  config.alg = "LeakyBucket" =>
    /\ 0 <= cell.val.level /\ cell.val.level <= params.full
    /\ \A i \in Threads :
         th[i].pc = "cas" => (0 <= th[i].new[1].level /\ th[i].new[1].level <= params.full)

\* The bucket is full after admissions by two threads, the second one after
\* some of the level had dripped away.
C9_Witness ==
  /\ config.alg = "LeakyBucket"
  /\ cell.val.level = params.full
  /\ \A i \in Threads : th[i].admitted >= 1
  /\ cell.ptr >= 3

\* ---------------------------------------------------------------- keyed limiter
\* A KeyedRateLimiter and its clones, one per thread.  The map's values are
\* bucket states behind a ThreadsafeWrapper; a bucket is named by its place
\* in `buckets`, and remembers the key it was made for.
NumKeys == 2
MaxKeyedCalls == 3
MaxKeyedTime == 1
MaxKeyedBatch == 2

Keys == 1..NumKeys
KeyedTimes == 0..MaxKeyedTime
KeyedBatches == 0..MaxKeyedBatch

\* pc: where the thread is in check_and_update_key or cleanup_at; bucket: the
\* state the read handle gave it; res: the decision its last call returned;
\* via: the path that call took ("found", "inserted" or "cleanup"); present:
\* the key had an entry when the check began and no cleanup has removed it
\* since; from: the state the check's update was applied to; min_age, view,
\* expireable: the arguments of cleanup_at, the map its for_each iterates,
\* and the keys it collected (and returns).
IdleCaller == [pc |-> "idle", key |-> 0, op |-> "none", n |-> 0, at |-> 0,
               bucket |-> 0, res |-> Ok, via |-> "none", present |-> FALSE,
               from |-> None, min_age |-> 0, view |-> <<>>, expireable |-> {},
               now |-> <<>>]

\* KeyedRateLimiter::new / Builder::build: an empty map, refreshed once.
InitKeyed ==
  /\ config \in ThreadConfigs
  /\ params = construct(config)
  /\ map_reader = [k \in Keys |-> None]
  /\ map_writer = 0
  /\ buckets = <<>>
  /\ inserted = [k \in Keys |-> <<>>]
  /\ th = [i \in Threads |-> IdleCaller]
  /\ calls = 0
  /\ state = default_state(params)
  /\ last = NoCall(params)
  /\ burst = NoBurst
  /\ hist = NoHist
  /\ cell = NoCell(params)

\* measure_and_replace dropping what f returned: the data stays as it was.
measure_and_replace_keep(data, pass) == data

\* ThreadsafeWrapper::measure_and_replace: the data is replaced when f
\* returns a new value, and left alone when it returns None.
measure_and_replace(data, pass) == IF pass.new = None THEN data ELSE pass.new[1]

\* w.update(key, state) with no flush after it: the read handle still shows
\* the map as it was.
evmap_update_unflushed(map, key, bucket) == map

\* w.update(key, state) putting the new state under every key of the map.
evmap_update_every_key(map, key, bucket) == [k \in DOMAIN map |-> Some(bucket)]

\* w.update(key, state); w.flush(): the key's values are replaced by the one
\* given, and the read handle shows the map so changed.
evmap_update(map, key, bucket) == [map EXCEPT ![key] = Some(bucket)]

\* A thread calls check_at(key, at) / check_n_at(key, n, at) on its clone.
KeyedBegin(i, key, op, n, at) ==
  /\ th[i].pc = "idle"
  /\ calls < MaxKeyedCalls
  /\ th' = [th EXCEPT ![i] = [IdleCaller EXCEPT !.pc = "get_and", !.key = key,
                                                !.op = op, !.n = n, !.at = at,
                                                !.present = is_some(map_reader[key])]]
  /\ calls' = calls + 1
  /\ UNCHANGED <<config, params, state, last, burst, hist, cell, keyedVars>>

KeyedCheckAt(i) == \E key \in Keys, at \in KeyedTimes : KeyedBegin(i, key, "check_at", 1, at)

KeyedCheckNAt(i) ==
  \E key \in Keys, n \in KeyedBatches, at \in KeyedTimes :
    KeyedBegin(i, key, "check_n_at", n, at)

\* check_and_update_key going for the write handle whatever the read handle
\* shows.
GetAnd_locking(i) ==
  /\ th[i].pc = "get_and"
  /\ th' = [th EXCEPT ![i] = [@ EXCEPT !.pc = "lock"]]
  /\ UNCHANGED <<config, params, seqVars, cell, keyedVars>>

\* self.map_reader.get_and(&key, ..): the entry is there and the closure is
\* entered with v[0], or it is not and unwrap_or_else takes over.
GetAnd(i) ==
  LET t == th[i] IN
    /\ t.pc = "get_and"
    /\ IF is_some(map_reader[t.key])
         THEN th' = [th EXCEPT ![i] = [@ EXCEPT !.pc = "update",
                                                !.bucket = map_reader[t.key][1]]]
         ELSE th' = [th EXCEPT ![i] = [@ EXCEPT !.pc = "lock"]]
    /\ UNCHANGED <<config, params, seqVars, cell, keyedVars>>

\* update(state) on the entry found: the algorithm's measure_and_replace on
\* that bucket's state.
UpdateFound(i) ==
  LET t == th[i]
      pass == check_pass(params, buckets[t.bucket].val, t.op, t.n, t.at)
  IN
    /\ t.pc = "update"
    /\ buckets' = [buckets EXCEPT ![t.bucket].val = measure_and_replace(@, pass)]
    /\ th' = [th EXCEPT ![i] = [IdleCaller EXCEPT !.res = pass.decision, !.via = "found",
                                                  !.present = t.present,
                                                  !.from = Some(buckets[t.bucket].val)]]
    /\ UNCHANGED <<config, params, seqVars, cell, map_reader, map_writer, inserted>>

\* let mut w = self.map_writer.lock()
LockWriter(i) ==
  /\ th[i].pc = "lock"
  /\ map_writer = 0
  /\ map_writer' = i
  /\ th' = [th EXCEPT ![i] = [@ EXCEPT !.pc = "insert"]]
  /\ UNCHANGED <<config, params, seqVars, cell, map_reader, buckets, inserted>>

\* let state = Default::default(); let result = update(&state);
\* w.update(key, state); w.flush(); result -- and the lock is released.
InsertFresh(i) ==
  LET t == th[i]
      fresh == default_state(params)
      pass == check_pass(params, fresh, t.op, t.n, t.at)
  IN
    /\ t.pc = "insert"
    /\ map_writer = i
    /\ buckets' = Append(buckets, [key |-> t.key, val |-> measure_and_replace(fresh, pass)])
    /\ map_reader' = evmap_update(map_reader, t.key, Len(buckets) + 1)
    /\ map_writer' = 0
    /\ inserted' = [inserted EXCEPT ![t.key] =
                      Append(@, [op |-> t.op, n |-> t.n, at |-> t.at, res |-> pass.decision])]
    /\ th' = [th EXCEPT ![i] = [IdleCaller EXCEPT !.res = pass.decision, !.via = "inserted",
                                                  !.present = t.present,
                                                  !.from = Some(fresh)]]
    /\ UNCHANGED <<config, params, seqVars, cell>>

\* ---------------------------------------------------------------- keyed limiter, expiration
MaxKeyedAge == 1
KeyedAges == 0..MaxKeyedAge

\* RateLimitState::last_touched for GCRA's state: the theoretical arrival
\* time, when there is one.
GCRA_last_touched(s) == s.tat

\* RateLimitState::last_touched for the leaky bucket's state: the instant at
\* which the bucket will have drained, last_update + level.
LeakyBucket_last_touched(s) ==
  IF is_some(s.last_update) THEN Some(s.last_update[1] + s.level) ELSE None

last_touched(p, s) ==
  IF p.alg = "GCRA" THEN GCRA_last_touched(s) ELSE LeakyBucket_last_touched(s)

\* at.saturating_sub(min_age): instants do not go below the clock's origin.
saturating_sub(at, min_age) == IF at >= min_age THEN at - min_age ELSE 0

\* The test of cleanup_at's for_each closure asking for one more unit of
\* time to have passed since last_touched.
expireable_state_late(p, s, now, at, min_age) ==
  unwrap_or(last_touched(p, s), now) + 1 < saturating_sub(at, min_age)

\* The test of cleanup_at's for_each closure, with `now` what the clock reads:
\* state.last_touched(params).unwrap_or_else(|| self.clock.now())
\*   < at.saturating_sub(min_age)
expireable_state(p, s, now, at, min_age) ==
  unwrap_or(last_touched(p, s), now) < saturating_sub(at, min_age)

\* w.empty(key) for the first of the keys only.
evmap_empty_first_only(map, keys) ==
  [k \in DOMAIN map |-> IF keys # {} /\ k = CHOOSE x \in keys : \A y \in keys : x <= y
                          THEN None ELSE map[k]]

\* for key in expireable { w.empty(key) }; w.refresh()
evmap_empty(map, keys) == [k \in DOMAIN map |-> IF k \in keys THEN None ELSE map[k]]

\* A thread calls cleanup_at(min_age, at) on its clone.
CleanupAt(i, min_age, at) ==
  /\ th[i].pc = "idle"
  /\ calls < MaxKeyedCalls
  /\ th' = [th EXCEPT ![i] = [IdleCaller EXCEPT !.pc = "for_each", !.op = "cleanup_at",
                                                !.min_age = min_age, !.at = at]]
  /\ calls' = calls + 1
  /\ UNCHANGED <<config, params, state, last, burst, hist, cell, keyedVars>>

KeyedCleanupAt(i) == \E min_age \in KeyedAges, at \in KeyedTimes : CleanupAt(i, min_age, at)

\* self.map_reader.for_each(..) is entered: it iterates the map the read
\* handle shows at this moment.
ForEachEnter(i) ==
  /\ th[i].pc = "for_each"
  /\ th' = [th EXCEPT ![i] = [@ EXCEPT !.pc = "collecting", !.view = map_reader]]
  /\ UNCHANGED <<config, params, seqVars, cell, keyedVars>>

\* The closure has run on every entry: the keys whose state passes the test
\* are in `expireable`.  `now` is what the clock reads for a state that has
\* no last_touched; the readings taken are kept in the thread's `now`.
ForEachCollect(i, now) ==
  LET t == th[i] IN
    /\ t.pc = "collecting"
    /\ th' = [th EXCEPT ![i] =
                [@ EXCEPT !.pc = "cleanup_lock",
                          !.expireable =
                            {k \in DOMAIN t.view :
                               /\ is_some(t.view[k])
                               /\ expireable_state(params, buckets[t.view[k][1]].val,
                                                   now[k], t.at, t.min_age)},
                          !.now =
                            [k \in DOMAIN t.view |->
                               IF /\ is_some(t.view[k])
                                  /\ last_touched(params, buckets[t.view[k][1]].val) = None
                                 THEN Some(now[k]) ELSE None]]]
    /\ UNCHANGED <<config, params, seqVars, cell, keyedVars>>

\* let mut w = self.map_writer.lock()
CleanupLock(i) ==
  /\ th[i].pc = "cleanup_lock"
  /\ map_writer = 0
  /\ map_writer' = i
  /\ th' = [th EXCEPT ![i] = [@ EXCEPT !.pc = "empty"]]
  /\ UNCHANGED <<config, params, seqVars, cell, map_reader, buckets, inserted>>

\* for key in expireable { w.empty(key) }; w.refresh(); expireable -- and
\* the lock is released.
EmptyKeys(i) ==
  LET t == th[i] IN
    /\ t.pc = "empty"
    /\ map_writer = i
    /\ map_reader' = evmap_empty(map_reader, t.expireable)
    /\ map_writer' = 0
    /\ th' = [j \in Threads |->
                IF j = i THEN [t EXCEPT !.pc = "idle", !.via = "cleanup"]
                ELSE IF th[j].key \in t.expireable THEN [th[j] EXCEPT !.present = FALSE]
                ELSE th[j]]
    /\ UNCHANGED <<config, params, seqVars, cell, buckets, inserted>>

NextKeyed ==
  \E i \in Threads :
    \/ KeyedCheckAt(i) \/ KeyedCheckNAt(i)
    \/ GetAnd(i) \/ UpdateFound(i) \/ LockWriter(i) \/ InsertFresh(i)
    \/ KeyedCleanupAt(i) \/ ForEachEnter(i)
    \/ (\E now \in [Keys -> KeyedTimes] : ForEachCollect(i, now))
    \/ CleanupLock(i) \/ EmptyKeys(i)

SpecKeyed == InitKeyed /\ [][NextKeyed]_vars

\* ---------------------------------------------------------------- keyed limiter, one caller
\* The keyed limiter with a single caller: no operation runs concurrently
\* with another.
MaxAloneAge == 1
MaxAloneTime == 3
MaxAloneBatch == 2
MaxAloneCapacity == 2
AloneAges == 0..MaxAloneAge
AloneTimes == 0..MaxAloneTime
AloneBatches == 0..MaxAloneBatch
TheCaller == 1

\* The limiters the caller uses: cell weight 1, the longest period.
AloneConfigs ==
  {c \in Configs : /\ c.cell_weight = 1
                   /\ c.capacity <= MaxAloneCapacity
                   /\ c.per = MaxPeriod}

InitKeyedAlone ==
  /\ config \in AloneConfigs
  /\ params = construct(config)
  /\ map_reader = [k \in Keys |-> None]
  /\ map_writer = 0
  /\ buckets = <<>>
  /\ inserted = [k \in Keys |-> <<>>]
  /\ th = [i \in Threads |-> IdleCaller]
  /\ calls = 0
  /\ state = default_state(params)
  /\ last = NoCall(params)
  /\ burst = NoBurst
  /\ hist = NoHist
  /\ cell = NoCell(params)

AloneCheckAt ==
  \E key \in Keys, at \in AloneTimes : KeyedBegin(TheCaller, key, "check_at", 1, at)

AloneCheckNAt ==
  \E key \in Keys, n \in AloneBatches, at \in AloneTimes :
    KeyedBegin(TheCaller, key, "check_n_at", n, at)

AloneCleanupAt ==
  \E min_age \in AloneAges, at \in AloneTimes : CleanupAt(TheCaller, min_age, at)

NextKeyedAlone ==
  \/ AloneCheckAt \/ AloneCheckNAt
  \/ GetAnd(TheCaller) \/ UpdateFound(TheCaller)
  \/ LockWriter(TheCaller) \/ InsertFresh(TheCaller)
  \/ AloneCleanupAt \/ ForEachEnter(TheCaller)
  \/ (\E now \in [Keys -> AloneTimes] : ForEachCollect(TheCaller, now))
  \/ CleanupLock(TheCaller) \/ EmptyKeys(TheCaller)

SpecKeyedAlone == InitKeyedAlone /\ [][NextKeyedAlone]_vars

\* ---------------------------------------------------------------- ThreadsafeWrapper
\* Clones of one ThreadsafeWrapper<T>, one per thread, share the Mutex<T> in
\* its Arc.  cell.lock is the thread holding the Mutex (0: nobody), cell.data
\* the state inside it, cell.committed the states the cell has held: the
\* initial one and every one a measure_and_replace has written.  The closure
\* f handed to measure_and_replace is the algorithm's check on the state.
MaxCellCalls == 3
MaxCellTime == 1
MaxCellBatch == 2

CellTimes == 0..MaxCellTime
CellBatches == 0..MaxCellBatch

\* The limiters whose state the cell holds.
CellConfigs == {c \in ThreadConfigs : c.per = MaxThreadPeriod}

\* pc: where the thread is in measure_and_replace or snapshot; seen: the
\* state f was invoked on; pass: what f returned, (decision, new_data);
\* invoked: how often f was invoked in this call; res: the decision the
\* thread's last measure_and_replace returned; copy: the state its last
\* snapshot returned; done: the call the thread returned from last.
IdleUser == [pc |-> "idle", op |-> "none", n |-> 0, at |-> 0,
             seen |-> None, pass |-> [decision |-> Ok, new |-> None], invoked |-> 0,
             res |-> Ok, copy |-> None, done |-> "none"]

\* ThreadsafeWrapper::default: Arc::new(Mutex::new(T::default()))
InitCell ==
  /\ config \in CellConfigs
  /\ params = construct(config)
  /\ cell = [lock |-> 0, data |-> default_state(params),
             committed |-> {default_state(params)}]
  /\ th = [i \in Threads |-> IdleUser]
  /\ calls = 0
  /\ state = default_state(params)
  /\ last = NoCall(params)
  /\ burst = NoBurst
  /\ hist = NoHist
  /\ NoKeys

\* A Mutex that hands itself out while another thread holds it.
Mutex_lock_barging(holder) == TRUE

\* Mutex::lock returns once nobody holds the Mutex.
Mutex_lock(holder) == holder = 0

\* A guard whose drop leaves the Mutex held.
MutexGuard_drop_leaked(holder) == holder

\* The MutexGuard is dropped at the end of the function: nobody holds the
\* Mutex.
MutexGuard_drop(holder) == 0

\* A thread calls measure_and_replace(f) on its clone, f being the check
\* (op, n, at), or snapshot().
CellBegin(i, op, n, at) ==
  /\ th[i].pc = "idle"
  /\ calls < MaxCellCalls
  /\ th' = [th EXCEPT ![i] = [IdleUser EXCEPT !.pc = "lock", !.op = op, !.n = n, !.at = at]]
  /\ calls' = calls + 1
  /\ UNCHANGED <<config, params, state, last, burst, hist, cell, keyedVars>>

CellCheckAt(i) == \E at \in CellTimes : CellBegin(i, "check_at", 1, at)

CellCheckNAt(i) == \E n \in CellBatches, at \in CellTimes : CellBegin(i, "check_n_at", n, at)

CellSnapshot(i) == CellBegin(i, "snapshot", 0, 0)

\* let mut data = self.data.lock();
CellLock(i) ==
  /\ th[i].pc = "lock"
  /\ Mutex_lock(cell.lock)
  /\ cell' = [cell EXCEPT !.lock = i]
  /\ th' = [th EXCEPT ![i] = [@ EXCEPT !.pc = IF th[i].op = "snapshot" THEN "clone"
                                                 ELSE "call"]]
  /\ UNCHANGED <<config, params, seqVars, keyedVars>>

\* let (decision, new_data) = f(&*data);
CellCallF(i) ==
  LET t == th[i] IN
    /\ t.pc = "call"
    /\ th' = [th EXCEPT ![i] = [@ EXCEPT !.pc = "store",
                                          !.seen = Some(cell.data),
                                          !.pass = check_pass(params, cell.data, t.op, t.n, t.at),
                                          !.invoked = @ + 1]]
    /\ UNCHANGED <<config, params, seqVars, cell, keyedVars>>

\* *data = new_data under way: the first field of the state is written, the
\* others still hold what they held.
partly_written(data, new_data) ==
  IF params.alg = "GCRA" THEN new_data
  ELSE [data EXCEPT !.level = new_data.level]

\* if let Some(new_data) = new_data { *data = new_data; } -- entered; the
\* assignment copies the state field by field.
CellStore(i) ==
  LET t == th[i] IN
    /\ t.pc = "store"
    /\ IF t.pass.new = None
         THEN /\ th' = [th EXCEPT ![i] = [@ EXCEPT !.pc = "return"]]
              /\ cell' = cell
         ELSE /\ th' = [th EXCEPT ![i] = [@ EXCEPT !.pc = "store_rest"]]
              /\ cell' = [cell EXCEPT !.data = partly_written(@, t.pass.new[1])]
    /\ UNCHANGED <<config, params, seqVars, keyedVars>>

\* *data = new_data completed.
CellStoreRest(i) ==
  LET t == th[i]
      data == measure_and_replace(cell.data, t.pass)
  IN
    /\ t.pc = "store_rest"
    /\ cell' = [cell EXCEPT !.data = data, !.committed = @ \cup {data}]
    /\ th' = [th EXCEPT ![i] = [@ EXCEPT !.pc = "return"]]
    /\ UNCHANGED <<config, params, seqVars, keyedVars>>

\* decision -- returned as the guard goes out of scope.
CellReturn(i) ==
  LET t == th[i] IN
    /\ t.pc = "return"
    /\ cell' = [cell EXCEPT !.lock = MutexGuard_drop(@)]
    /\ th' = [th EXCEPT ![i] = [@ EXCEPT !.pc = "idle", !.res = t.pass.decision,
                                          !.done = t.op]]
    /\ UNCHANGED <<config, params, seqVars, keyedVars>>

\* data.clone() -- returned as the guard goes out of scope.
CellClone(i) ==
  LET t == th[i] IN
    /\ t.pc = "clone"
    /\ cell' = [cell EXCEPT !.lock = MutexGuard_drop(@)]
    /\ th' = [th EXCEPT ![i] = [@ EXCEPT !.pc = "idle", !.copy = Some(cell.data),
                                          !.done = "snapshot"]]
    /\ UNCHANGED <<config, params, seqVars, keyedVars>>

\* What a thread does once it has called: the steps of its call.
CellStep(i) ==
  \/ CellLock(i)
  \/ CellCallF(i)
  \/ CellStore(i)
  \/ CellStoreRest(i)
  \/ CellReturn(i)
  \/ CellClone(i)

NextCell ==
  \E i \in Threads :
    \/ CellCheckAt(i)
    \/ CellCheckNAt(i)
    \/ CellSnapshot(i)
    \/ CellLock(i)
    \/ CellCallF(i)
    \/ CellStore(i)
    \/ CellStoreRest(i)
    \/ CellReturn(i)
    \/ CellClone(i)

SpecCell == InitCell /\ [][NextCell]_vars

\* Every thread that has called gets to take its next step when it can.
SpecCellFair == SpecCell /\ \A i \in Threads : WF_vars(CellStep(i))

\* ---------------------------------------------------------------- claims, ThreadsafeWrapper
\* The threads that hold the Mutex by their position in the code.
InCriticalSection == {i \in Threads : th[i].pc \in {"call", "store", "store_rest", "return", "clone"}}

\* Thread i's measure_and_replace returns in this step.
MeasureReturns(i) == th[i].pc = "return" /\ th'[i].pc = "idle"

C24_CriticalSectionsAtomic ==
  /\ [](/\ Cardinality(InCriticalSection) <= 1
        /\ \A i \in InCriticalSection : cell.lock = i
        /\ \A i \in Threads :
             /\ is_some(th[i].seen) => th[i].seen[1] \in cell.committed
             /\ is_some(th[i].copy) => th[i].copy[1] \in cell.committed)
  /\ [][\A i \in Threads :
          (th[i].pc = "store" /\ th'[i].pc # "store") => th[i].seen = Some(cell.data)]_vars

\* A thread is in the middle of writing a state, the cell holding a partly
\* written one, while another thread waits for the Mutex.
C24_Witness ==
  /\ cell.data \notin cell.committed
  /\ \E i, j \in Threads : th[i].pc = "store_rest" /\ th[j].pc = "lock"

\* C25: any finite set of concurrent measure_and_replace and snapshot calls
\* on one state cell all complete under fair scheduling: every call that has
\* begun returns.
C25_EveryCallReturns == \A i \in Threads : (th[i].pc # "idle") ~> (th[i].pc = "idle")

\* A thread waits for the Mutex that another thread holds, and no further
\* call can begin.
C25_Witness ==
  /\ calls = MaxCellCalls
  /\ \E i, j \in Threads : th[i].pc = "lock" /\ cell.lock = j /\ j # i /\ j # 0

\* ---------------------------------------------------------------- claims, keyed limiter
\* The state stored for key k, as a check of k finds it.
stored(k) ==
  IF is_some(map_reader[k]) THEN Some(buckets[map_reader[k][1]].val) ELSE None

\* All that can be seen of the limiter through key k: its entry, and the
\* states of the buckets made for it.
keyed_view(k) ==
  [entry |-> map_reader[k],
   states |-> [b \in {c \in DOMAIN buckets : buckets[c].key = k} |-> buckets[b].val]]

\* C3: when two threads concurrently make the first check of one absent key
\* and both are admitted, then after both calls have returned the state stored
\* for the key is the one that accounts for both cells: the second check
\* applied to the state the first one left.
C3_NoAdmittedCellLost ==
  \A k \in Keys :
    (/\ \A i \in Threads : th[i].pc = "idle"
     /\ calls = 2
     /\ Len(inserted[k]) = 2
     /\ is_ok(inserted[k][1].res)
     /\ is_ok(inserted[k][2].res)) =>
      LET a == inserted[k][1]
          b == inserted[k][2]
          first == check_pass(params, default_state(params), a.op, a.n, a.at)
          after_first == committed(default_state(params), first)
          second == check_pass(params, after_first, b.op, b.n, b.at)
      IN /\ is_ok(second.decision)
         /\ stored(k) = Some(committed(after_first, second))

\* C4: a check on key k1, accepted or rejected, leaves what is stored for
\* every other key as it was: the entry and the bucket states of a key change
\* only in the step in which a check of that very key takes effect (or in
\* which cleanup_at, which is no check, removes the key's entry); and the
\* bucket a check decides on is one made for its own key, so the decisions
\* for a key come from the checks made on that key alone.
C4_KeyedIsolation ==
  /\ [](\A i \in Threads : th[i].pc = "update" => buckets[th[i].bucket].key = th[i].key)
  /\ [][\A k \in Keys :
          keyed_view(k)' # keyed_view(k) =>
            \/ \E i \in Threads : /\ th[i].key = k
                                  /\ th[i].pc \in {"update", "insert"}
                                  /\ th'[i].pc = "idle"
            \/ \E i \in Threads : /\ th[i].pc = "empty"
                                  /\ th'[i].pc = "idle"
                                  /\ k \in th[i].expireable
                                  /\ keyed_view(k)'.states = keyed_view(k).states]_vars

\* Both keys hold a state that admitted a cell, and the last check on one of
\* them was turned away on the entry it found.
C4_Witness ==
  /\ \A k \in Keys : is_some(stored(k)) /\ stored(k)[1] # default_state(params)
  /\ \E i \in Threads : /\ th[i].pc = "idle"
                        /\ th[i].via = "found"
                        /\ IsNonConforming(th[i].res)

\* ---------------------------------------------------------------- claims, expiration
\* The step in which the caller's cleanup_at removes the keys and returns.
CleanupReturns == th[TheCaller].pc = "empty" /\ th'[TheCaller].pc = "idle"

\* The keys that have an entry whose state has a last_touched before
\* at - min_age, for the cleanup_at the caller is in.
touched_before_cutoff ==
  LET t == th[TheCaller] IN
    {k \in Keys : /\ is_some(stored(k))
                  /\ is_some(last_touched(params, stored(k)[1]))
                  /\ last_touched(params, stored(k)[1])[1] < saturating_sub(t.at, t.min_age)}

\* The keys that have an entry whose state has no last_touched.
never_touched ==
  {k \in Keys : is_some(stored(k)) /\ last_touched(params, stored(k)[1]) = None}

\* C14 as stated: with no concurrent operations, cleanup_at(min_age, at)
\* returns exactly the keys whose state has last_touched < at - min_age
\* (saturating), removes exactly those keys from the map, and leaves every
\* other key present with its state unchanged.
C14_CleanupExact ==
  [][CleanupReturns =>
       /\ th'[TheCaller].expireable = touched_before_cutoff
       /\ map_reader' = [k \in Keys |-> IF k \in touched_before_cutoff
                                          THEN None ELSE map_reader[k]]
       /\ buckets' = buckets]_vars

\* C14, amended: with no concurrent operations, cleanup_at(min_age, at)
\* returns every key whose state has last_touched < at - min_age, and besides
\* those only keys whose state has no last_touched (for them the clock's
\* reading stands in); it removes exactly the keys it returns and leaves
\* every other key present with its state unchanged.
C14_CleanupExactButUntouched ==
  [][CleanupReturns =>
       /\ touched_before_cutoff \subseteq th'[TheCaller].expireable
       /\ th'[TheCaller].expireable \subseteq (touched_before_cutoff \cup never_touched)
       /\ map_reader' = [k \in Keys |-> IF k \in th'[TheCaller].expireable
                                          THEN None ELSE map_reader[k]]
       /\ buckets' = buckets]_vars

\* A cleanup_at has returned one key and left the other, whose state has a
\* last_touched too, in the map.
C14_Witness ==
  LET t == th[TheCaller] IN
    /\ t.pc = "idle" /\ t.via = "cleanup"
    /\ \E k1, k2 \in Keys :
         /\ t.expireable = {k1}
         /\ is_some(last_touched(params, buckets[t.view[k1][1]].val))
         /\ k2 # k1
         /\ is_some(stored(k2))
         /\ is_some(last_touched(params, stored(k2)[1]))

\* A check that found no entry for its key when it began was applied to a
\* fresh (default) state.
AbsentStartsFresh ==
  \A i \in Threads :
    (th[i].pc = "idle" /\ th[i].via \in {"found", "inserted"} /\ ~th[i].present) =>
      (th[i].via = "inserted" /\ th[i].from = Some(default_state(params)))

\* C15 as stated: after cleanup with min_age 0 at time t, every key whose
\* last_touched <= t is no longer present in the map, and the next check of
\* such a key starts from a fresh state.
C15_ExpiredUpToNow ==
  /\ []AbsentStartsFresh
  /\ [][(CleanupReturns /\ th[TheCaller].min_age = 0) =>
          \A k \in Keys :
            (/\ is_some(stored(k))
             /\ is_some(last_touched(params, stored(k)[1]))
             /\ last_touched(params, stored(k)[1])[1] <= th[TheCaller].at) =>
              map_reader'[k] = None]_vars

\* C15, amended: after cleanup with min_age 0 at time t, every key whose
\* last_touched < t is no longer present in the map, and the next check of
\* such a key starts from a fresh state.
C15_ExpiredBeforeNow ==
  /\ []AbsentStartsFresh
  /\ [][(CleanupReturns /\ th[TheCaller].min_age = 0) =>
          \A k \in Keys :
            (/\ is_some(stored(k))
             /\ is_some(last_touched(params, stored(k)[1]))
             /\ last_touched(params, stored(k)[1])[1] < th[TheCaller].at) =>
              map_reader'[k] = None]_vars

\* A key that was checked, then expired, has been checked again: the check
\* found no entry and inserted the state it got from a fresh one.
C15_Witness ==
  LET t == th[TheCaller] IN
    /\ t.pc = "idle" /\ t.via = "inserted" /\ ~t.present
    /\ \E k \in Keys : Len(inserted[k]) = 2 /\ is_ok(inserted[k][1].res)

\* The calls a caller can make on a key.
KeyedOps ==
  {[op |-> "check_at", n |-> 1]} \cup {[op |-> "check_n_at", n |-> n] : n \in Batches}

\* C16: when cleanup_at(min_age, at) removes key k (no concurrent
\* operations), a subsequent check on k, single-cell or batch, at a time
\* >= at returns the decision it would have returned on the state that was
\* removed, and so does the check after it.
C16_ExpirationSafe ==
  LET t == th[TheCaller] IN
    (t.pc = "idle" /\ t.via = "cleanup") =>
      \A k \in t.expireable :
        \A c1 \in KeyedOps, c2 \in KeyedOps :
          \A t1 \in {x \in Times : x >= t.at}, t2 \in {x \in Times : x >= t.at} :
            LET kept == buckets[t.view[k][1]].val
                fresh == default_state(params)
                on_kept == check_pass(params, kept, c1.op, c1.n, t1)
                on_fresh == check_pass(params, fresh, c1.op, c1.n, t1)
            IN /\ on_kept.decision = on_fresh.decision
               /\ check_pass(params, committed(kept, on_kept), c2.op, c2.n, t2).decision
                    = check_pass(params, committed(fresh, on_fresh), c2.op, c2.n, t2).decision

\* A caller is inside one of the two parts of cleanup_at: iterating the read
\* side to collect the expirable keys, or removing them.
CleanupRunning == \E i \in Threads : th[i].pc \in {"collecting", "empty"}

\* C17: while cleanup_at runs, in both of its parts (collecting the
\* expirable keys, then removing them), no key that is absent from the map
\* becomes present through a concurrent check.
C17_CleanupBlocksNewKeys ==
  [][CleanupRunning =>
       \A k \in Keys : map_reader[k] = None => map_reader'[k] = None]_vars

\* The step in which thread i's check of an absent key inserts and returns.
InsertReturns(i) == th[i].pc = "insert" /\ th'[i].pc = "idle"

\* A check that began when its key had an entry, none having been removed by
\* cleanup since, goes through the read path: it neither waits for the write
\* lock nor inserts, and once returned it has updated the entry it found.
PresentKeyFound ==
  \A i \in Threads :
    th[i].present => /\ th[i].pc \in {"get_and", "update", "idle"}
                     /\ th[i].pc = "idle" => th[i].via = "found"

\* C18: when a check on an absent key returns, the key is present on the
\* read side of the map with the state obtained by applying the update to a
\* default state; every check of that key that starts afterwards finds the
\* entry through the read path and does not insert again, until cleanup
\* removes the key.
C18_InsertedKeyVisible ==
  /\ []PresentKeyFound
  /\ [][\A i \in Threads :
          InsertReturns(i) =>
            LET t == th[i]
                fresh == default_state(params)
            IN /\ is_some(map_reader'[t.key])
               /\ buckets'[map_reader'[t.key][1]].val
                    = committed(fresh, check_pass(params, fresh, t.op, t.n, t.at))]_vars

\* One key has been inserted, once, by a check that was admitted; a later
\* check has found that entry through the read path and returned.
C18_Witness ==
  /\ \E k \in Keys : /\ Len(inserted[k]) = 1
                      /\ is_ok(inserted[k][1].res)
                      /\ is_some(map_reader[k])
                      /\ \A k2 \in Keys \ {k} : inserted[k2] = <<>>
  /\ \E i \in Threads : /\ th[i].pc = "idle"
                         /\ th[i].via = "found"
                         /\ th[i].present
                         /\ th[i].from # Some(default_state(params))

\* ---------------------------------------------------------------- claims, one caller
Called == last.op # "none"

\* C1: a check_at / check_n_at call that returns a rejection (non-conforming,
\* BatchNonConforming or InsufficientCapacity) leaves the bucket state as it
\* was before the call.
C1_RejectionLeavesState == (Called /\ ~is_ok(last.res)) => state = last.pre

C1_Witness ==
  /\ Called
  /\ IsNonConforming(last.res)
  /\ last.pre # default_state(params)
  /\ state = last.pre

\* What a fresh bucket answers to a batch of n at instant t.
fresh_answer(n, t) == test_n_and_update_pass(params, default_state(params), n, t).decision

\* C5: check_n_at(n, t) returns InsufficientCapacity(n) if and only if a fresh
\* bucket with the same parameters would not admit a batch of n, at whatever
\* instant; the outcome does not depend on the bucket state or on t.
C5_InsufficientIffFreshRejects ==
  (Called /\ last.op = "check_n_at") =>
    /\ IsInsufficient(last.res) <=> (\E t \in Times : ~is_ok(fresh_answer(last.n, t)))
    /\ IsInsufficient(last.res) <=> (\A t \in Times : ~is_ok(fresh_answer(last.n, t)))
    /\ IsInsufficient(last.res) => last.res.n = last.n

C5_Witness ==
  /\ last.op = "check_n_at"
  /\ IsInsufficient(last.res)
  /\ last.pre # default_state(params)
  /\ calls >= 3

\* C6: LeakyBucket: a check rejected as non-conforming at t with value nc and
\* repeated at t + nc.wait_time_from(t), with no admission in between, is
\* accepted.
C6_LeakyBucketRetryAdmitted ==
  (config.alg = "LeakyBucket" /\ last.retry) => is_ok(last.res)

C6_Witness ==
  /\ config.alg = "LeakyBucket"
  /\ last.retry
  /\ is_ok(last.res)
  /\ last.pre.level > 0
  /\ last.at > last.pre.last_update[1]

\* C7: GCRA: a check rejected as non-conforming at t with value nc and
\* repeated at t + nc.wait_time_from(t), with no admission in between, is
\* accepted.
C7_GCRARetryAdmitted ==
  (config.alg = "GCRA" /\ last.retry) => is_ok(last.res)

C7_Witness ==
  /\ config.alg = "GCRA"
  /\ last.retry
  /\ is_ok(last.res)
  /\ last.at = last.pre.tat[1]

\* C8: LeakyBucket time-travel safety: after a check admitted at t1, a check
\* at an earlier t2 < t1 is decided exactly as if it had been made at t1, and
\* every later check sees a fill level no lower than the one it would have
\* seen had the t2 check been made at t1.
C8_TimeTravelSafe ==
  (/\ config.alg = "LeakyBucket"
   /\ Called
   /\ is_some(last.pre.last_update)
   /\ last.at < unwrap_or(last.pre.last_update, last.at)) =>
    LET t1 == last.pre.last_update[1]
        at_t1 == check_pass(params, last.pre, last.op, last.n, t1)
    IN /\ last.res = at_t1.decision
       /\ \A t3 \in Times :
            LeakyBucket_dripped_level(state, t3)
              >= LeakyBucket_dripped_level(committed(last.pre, at_t1), t3)

\* C10: GCRA with capacity c and cell weight 1 (and an emission interval T of
\* at least one unit of time): on a fresh bucket, of repeated single-cell
\* checks at one instant t0 the first c+1 are accepted and every further one
\* is rejected; after such a burst a single-cell check is accepted again at
\* any time >= t0 + T.
C10_BurstOfCapacityPlusOne ==
  (/\ config.alg = "GCRA"
   /\ config.cell_weight = 1
   /\ params.t >= 1
   /\ last.op = "check_at"
   /\ last.burst.k >= 0) =>
    /\ (last.burst.k = 0 \/ last.at = last.burst.at) =>
         (is_ok(last.res) <=> last.burst.k + 1 <= config.capacity + 1)
    /\ (last.burst.k >= config.capacity + 1 /\ last.at >= last.burst.at + params.t) =>
         is_ok(last.res)

\* C11: LeakyBucket with capacity c and cell weight 1 (and a token interval
\* of at least one unit of time): on a fresh bucket, of repeated single-cell
\* checks at one instant t0 exactly the first c are accepted and the next is
\* rejected; after that burst a single-cell check is rejected at every time
\* before t0 + token interval and accepted at t0 + token interval.
C11_BurstOfCapacity ==
  (/\ config.alg = "LeakyBucket"
   /\ params.token_interval >= 1
   /\ last.op = "check_at"
   /\ last.burst.k >= 0) =>
    /\ (last.burst.k = 0 \/ last.at = last.burst.at) =>
         (is_ok(last.res) <=> last.burst.k + 1 <= config.capacity)
    /\ (last.burst.k >= config.capacity /\ last.at # last.burst.at) =>
         (is_ok(last.res) <=> last.at >= last.burst.at + params.token_interval)

\* C12: LeakyBucket: single-cell checks made exactly once per token interval,
\* starting on a fresh bucket, are all accepted, however many there are: each
\* is accepted, and each leaves the bucket holding that one cell only, which
\* is the state the next one starts from.
C12_PacedChecksAdmitted ==
  /\ (/\ config.alg = "LeakyBucket"
      /\ last.op = "check_at"
      /\ last.hist.paced.k >= 0
      /\ (last.hist.paced.k = 0 \/ last.at = last.hist.paced.at + params.token_interval)) =>
       is_ok(last.res)
  /\ (config.alg = "LeakyBucket" /\ hist.paced.k >= 1) =>
       state = [level |-> params.token_interval, last_update |-> Some(hist.paced.at)]

\* The fourth check of a paced run, a token interval of at least one unit
\* after the third, on a bucket that the third one had filled.
C12_Witness ==
  /\ config.alg = "LeakyBucket"
  /\ params.token_interval >= 1
  /\ last.op = "check_at"
  /\ last.hist.paced.k >= 3
  /\ last.at = last.hist.paced.at + params.token_interval
  /\ last.pre.level + params.token_interval > params.full
  /\ is_ok(last.res)

C19_SingleCellNeverInsufficient ==
  (config.cell_weight <= config.capacity) =>
    /\ \A t \in Times :
         /\ ~IsInsufficient(test_n_and_update_pass(params, state, 1, t).decision)
         /\ test_and_update_pass(params, state, t).decision.kind # "Panic"
    /\ (Called /\ last.op = "check_at") => last.res.kind # "Panic"

\* A leaky bucket that one cell fills has taken its cell, and a single-cell
\* check on the full bucket has been turned away as non-conforming.
C19_Witness ==
  /\ Called
  /\ config.alg = "LeakyBucket"
  /\ config.cell_weight <= config.capacity
  /\ params.token_interval = params.full
  /\ last.op = "check_at"
  /\ IsNonConforming(last.res)
  /\ state.level = params.full

\* C20: no limiter whose cell weight exceeds its capacity can be built:
\* cell_weight / with_cell_weight followed by build fails with
\* InconsistentCapacity, so every limiter there is has
\* cell_weight <= capacity.
C20_OverweightNeverBuilt == config.cell_weight <= config.capacity

\* C21: check_n_at with batch size n returns InsufficientCapacity(n) exactly
\* when n cells, times the cell weight, exceed the configured capacity, also
\* when the period is not an integer multiple of the capacity (limiters
\* whose cell weight is within the capacity and whose period is at least
\* one time unit per cell of capacity).
C21_InsufficientIffOverCapacity ==
  (/\ Called
   /\ last.op = "check_n_at"
   /\ config.cell_weight <= config.capacity
   /\ config.per >= config.capacity) =>
    (IsInsufficient(last.res) <=> last.n * config.cell_weight > config.capacity)

\* The instants a caller may ask a rejection about.
Froms == 0..(2 * MaxTime + MaxPeriod)

\* earliest - from, saturating at zero.
saturating_duration_since(earliest, from) == IF from >= earliest THEN 0 ELSE earliest - from

\* The rejection of the last check, as the algorithm returned it, reports
\* the saturating difference.
PlainWaitIsDifference ==
  IsNonConforming(last.res) =>
    \A from \in Froms :
      nc_wait_time_from(rejection(last), from)
        = saturating_duration_since(nc_earliest_possible(rejection(last)), from)

\* C22: for every rejection value (GCRA's, LeakyBucket's, and a
\* jitter-wrapped one), wait_time_from(from) equals earliest_possible() minus
\* from, saturating at zero: it is zero whenever from is at or after
\* earliest_possible().
C22_WaitIsSaturatingDifference ==
  /\ PlainWaitIsDifference
  /\ is_some(last.jittered) =>
       \A from \in Froms :
         NonConformanceWithJitter_wait_time_from(last.jittered[1], from)
           = saturating_duration_since(
               NonConformanceWithJitter_earliest_possible(last.jittered[1]), from)

\* The last call was made on a GCRA bucket; tat_before is the stored TAT it
\* found, the call's own instant when the bucket was fresh.
CalledGCRA == Called /\ params.alg = "GCRA"
tat_before == unwrap_or(last.pre.tat, last.at)

\* C26: GCRA single-cell rule: check_at(t0) on a bucket whose stored TAT is
\* tat (tat = t0 when the bucket is fresh) is rejected if and only if
\* t0 < tat - tau, and when accepted sets the stored TAT to exactly
\* max(tat, t0) + T.
C26_GCRASingleCellRule ==
  (CalledGCRA /\ last.op = "check_at") =>
    /\ ~is_ok(last.res) <=> last.at < tat_before - params.tau
    /\ is_ok(last.res) => state.tat = Some(cmp_max(tat_before, last.at) + params.t)
    /\ ~is_ok(last.res) => last.res.kind = "NonConformance"

\* A single cell was accepted on a bucket whose stored TAT lay ahead of the
\* check's instant, within the tolerance.
C26_Witness ==
  /\ CalledGCRA
  /\ last.op = "check_at"
  /\ is_ok(last.res)
  /\ is_some(last.pre.tat)
  /\ last.pre.tat[1] > last.at
  /\ params.t >= 1

\* The TAT a batch of last.n cells is measured against.
tat_eff == tat_before + params.t * (last.n - 1)

\* C27: GCRA batch rule: for check_n_at(n, t0) with n >= 2 and T*n <= tau,
\* with tat_eff = tat + T*(n-1) (tat = t0 when fresh), the batch is rejected
\* as BatchNonConforming(n, nc) with nc.earliest_possible() = tat_eff if and
\* only if t0 < tat_eff - tau, and otherwise accepted with new stored
\* TAT = max(tat_eff, t0) + T*n.
C27_GCRABatchRule ==
  (/\ CalledGCRA
   /\ last.op = "check_n_at"
   /\ last.n >= 2
   /\ params.t * last.n <= params.tau) =>
    IF last.at < tat_eff - params.tau
      THEN /\ last.res.kind = "BatchNonConforming"
           /\ last.res.n = last.n
           /\ earliest_possible(last.res.nc) = tat_eff
           /\ state = last.pre
      ELSE /\ is_ok(last.res)
           /\ state.tat = Some(cmp_max(tat_eff, last.at) + params.t * last.n)

\* A batch of two or more that fits the capacity was turned away by a bucket
\* in use.
C27_Witness ==
  /\ CalledGCRA
  /\ last.op = "check_n_at"
  /\ last.n >= 2
  /\ params.t >= 1
  /\ params.t * last.n <= params.tau
  /\ last.res.kind = "BatchNonConforming"
  /\ is_some(last.pre.tat)

\* The last call was made on a leaky bucket; last_before is the last_update
\* it found (the call's own instant when the bucket was fresh), t0_clamped
\* the instant it answered from, level_dripped the level it computed.
CalledLeakyBucket == Called /\ params.alg = "LeakyBucket"
last_before == unwrap_or(last.pre.last_update, last.at)
t0_clamped == cmp_max(last.at, last_before)
level_dripped == last.pre.level - cmp_min(t0_clamped - last_before, last.pre.level)

\* C28: LeakyBucket decision rule: for check_n_at(n, t0) with
\* weight = token_interval*n <= full, with last = last_update (t0 when
\* fresh), t0' = max(t0, last) and new_level = level - min(t0' - last, level),
\* the batch is accepted if and only if new_level + weight <= full,
\* committing level = new_level + weight; otherwise it is rejected with
\* wait = new_level + weight - full measured from t0'.
C28_LeakyBucketRule ==
  LET weight == params.token_interval * last.n IN
    (CalledLeakyBucket /\ weight <= params.full) =>
      IF level_dripped + weight <= params.full
        THEN /\ is_ok(last.res)
             /\ state.level = level_dripped + weight
        ELSE /\ last.res.kind = "No"
             /\ last.res.wait = (level_dripped + weight) - params.full
             /\ rejection(last).t0 = t0_clamped
             /\ TooEarly_earliest_possible(rejection(last)) = t0_clamped + last.res.wait
             /\ state = last.pre

\* A batch was turned away by a leaky bucket that had dripped a part of its
\* level since its last update.
C28_Witness ==
  /\ CalledLeakyBucket
  /\ last.op = "check_n_at"
  /\ last.n >= 2
  /\ last.res.kind = "No"
  /\ level_dripped > 0
  /\ level_dripped < last.pre.level

\* C29: after every accepted LeakyBucket check called with timestamp t0, the
\* committed last_update equals the clamped timestamp
\* max(t0, previous last_update); hence last_update never moves backwards.
C29_LastUpdateClamped ==
  (CalledLeakyBucket /\ is_ok(last.res)) =>
    /\ state.last_update = Some(t0_clamped)
    /\ state.last_update[1] >= last_before

\* C30: a zero-cell query check_n_at(0, t0) on a GCRA bucket is always
\* accepted and consumes nothing: it neither uses up nor releases capacity,
\* so every later check gets the decision it would have got had the
\* zero-cell query not been made.
C30_ZeroCellQueryFree ==
  (CalledGCRA /\ last.op = "check_n_at" /\ last.n = 0) =>
    /\ is_ok(last.res)
    /\ \A c \in KeyedOps : \A t \in {x \in Times : x >= last.at} :
         check_pass(params, state, c.op, c.n, t).decision
           = check_pass(params, last.pre, c.op, c.n, t).decision

\* The decision of a GCRA call without the batch wrapper:
\* BatchNonConforming(n, nc) carries the NonConformance nc.
plain_decision(res) == IF res.kind = "BatchNonConforming" THEN res.nc ELSE res

\* What the other one of test_and_update(t0) and test_n_and_update(1, t0)
\* makes of the state the last call found, at the last call's instant.
other_pass ==
  check_pass(params, last.pre,
             IF last.op = "check_at" THEN "check_n_at" ELSE "check_at", 1, last.at)

\* C32: for GCRA, the single-cell operation test_and_update(t0) and the
\* batch operation test_n_and_update(1, t0) are equivalent: from every state
\* and for every t0 they return the same accept/reject decision with the
\* same earliest_possible, and leave the same stored TAT.
C32_SingleIsBatchOfOne ==
  (CalledGCRA /\ last.n = 1) =>
    /\ is_ok(other_pass.decision) <=> is_ok(last.res)
    /\ ~is_ok(last.res) =>
         /\ last.res.kind = IF last.op = "check_at" THEN "NonConformance"
                                                    ELSE "BatchNonConforming"
         /\ last.res.kind = "BatchNonConforming" => last.res.n = 1
         /\ earliest_possible(plain_decision(other_pass.decision))
              = earliest_possible(plain_decision(last.res))
    /\ committed(last.pre, other_pass) = state

\* A batch of one cell was turned away by a GCRA bucket that held a TAT, and
\* one was admitted by a bucket whose TAT lay ahead of the call.
C32_Witness ==
  /\ CalledGCRA
  /\ last.op = "check_n_at"
  /\ last.n = 1
  /\ is_some(last.pre.tat)
  /\ \/ last.res.kind = "BatchNonConforming"
     \/ is_ok(last.res) /\ last.pre.tat[1] > last.at

\* C33: for a GCRA rejection at time t0 with value nc, earliest_possible()
\* is the earliest time at which the rejected check could be conforming:
\* with no admission in between, the same check made at any time in
\* [t0, nc.earliest_possible()) is rejected.
C33_GCRANoEarlierAdmission ==
  (CalledGCRA /\ IsNonConforming(last.res)) =>
    \A t \in Froms :
      (last.at <= t /\ t < earliest_possible(rejection(last))) =>
        ~is_ok(check_pass(params, state, last.op, last.n, t).decision)

\* C34: for a LeakyBucket rejection, the reported wait is the minimum wait
\* until the cell can be accommodated: with no admission in between, the
\* same check made at any time earlier than the reported earliest_possible()
\* is rejected, and at earliest_possible() it is accepted.
C34_LeakyBucketWaitIsMinimal ==
  (CalledLeakyBucket /\ IsNonConforming(last.res)) =>
    \A t \in Froms :
      is_ok(check_pass(params, state, last.op, last.n, t).decision)
        <=> t >= TooEarly_earliest_possible(rejection(last))

\* A leaky bucket turned a check away with a wait of more than one time
\* unit, so that there are instants after the check and before the earliest
\* possible one.
C34_Witness ==
  /\ CalledLeakyBucket
  /\ last.res.kind = "No"
  /\ last.res.wait >= 2
  /\ last.at >= last_before
  /\ TooEarly_earliest_possible(rejection(last)) \in Froms

\* The calls so far, the last one included, were made at instants that never
\* went backwards.
CalledInOrder == Called /\ hist.ordered.k >= 1

\* C31: GCRA: for checks made at non-decreasing times, after every accepted
\* check_at or check_n_at call at time t0 the stored TAT satisfies
\* tat <= t0 + T + tau.
C31_TATBounded ==
  (CalledGCRA /\ CalledInOrder /\ is_ok(last.res)) =>
    state.tat[1] <= last.at + params.t + params.tau

\* The cells admitted at the instants a..b, out of the admissions listed.
RECURSIVE cells_admitted(_, _, _)
cells_admitted(admitted, a, b) ==
  IF admitted = <<>> THEN 0
  ELSE (IF a <= Head(admitted).at /\ Head(admitted).at <= b THEN Head(admitted).n ELSE 0)
       + cells_admitted(Tail(admitted), a, b)

\* No call so far asked for zero cells (a zero-cell batch is always accepted
\* by GCRA, so it would be listed).
AllCallsAskedForCells == \A j \in DOMAIN hist.ordered.admitted : hist.ordered.admitted[j].n >= 1

\* C38: GCRA rate envelope: for any sequence of check_at / check_n_at calls
\* with n >= 1 at non-decreasing times, the number of cells admitted in any
\* time window [a, b] satisfies admitted * T <= (b - a) + tau + T.
C38_RateEnvelope ==
  (CalledGCRA /\ CalledInOrder /\ AllCallsAskedForCells) =>
    \A a \in Times : \A b \in {x \in Times : x >= a} :
      cells_admitted(hist.ordered.admitted, a, b) * params.t
        <= (b - a) + params.tau + params.t

\* Cells were admitted at three different instants, the limiter's burst
\* being used up at the first, and a check in between was turned away.
C38_Witness ==
  /\ CalledGCRA /\ CalledInOrder /\ AllCallsAskedForCells
  /\ params.t >= 1
  /\ Len(hist.ordered.admitted) = 3
  /\ hist.ordered.k = 4
  /\ hist.ordered.admitted[1].at < hist.ordered.admitted[3].at
  /\ \E a \in Times : \E b \in {x \in Times : x >= a} :
       cells_admitted(hist.ordered.admitted, a, b) * params.t
         = (b - a) + params.tau + params.t

\* Thread i's check reads the map and finds an entry for its key; thread i's
\* check is in the closure, about to update the entry it found.
ReadsVisibleKey(i) ==
  th[i].pc = "get_and" /\ is_some(map_reader[th[i].key]) /\ th'[i].pc # "get_and"
InClosure(i) == th[i].pc = "update"

\* C35: a check on a key that is already visible on the read side of the
\* keyed map never acquires the map's write mutex: it cannot be blocked by a
\* concurrent first-check inserting another key or by a running cleanup, and
\* is synchronized only by that key's own state cell.
C35_VisibleKeyNeverLocks ==
  /\ [](\A i \in Threads :
          /\ th[i].pc = "get_and" => ENABLED GetAnd(i)
          /\ InClosure(i) => (map_writer # i /\ ENABLED UpdateFound(i)))
  /\ [][\A i \in Threads :
          /\ ReadsVisibleKey(i) =>
               /\ InClosure(i)'
               /\ th'[i].bucket = map_reader[th[i].key][1]
               /\ UNCHANGED <<map_reader, map_writer, buckets>>
          /\ (InClosure(i) /\ ~InClosure(i)') =>
               /\ th'[i].pc = "idle" /\ th'[i].via = "found"
               /\ UNCHANGED <<map_reader, map_writer>>
               /\ \A b \in DOMAIN buckets : b # th[i].bucket => buckets'[b] = buckets[b]]_vars

\* A check has found its key's entry and is about to update it while another
\* thread holds the write mutex to insert another key.
C35_Witness ==
  \E i, j \in Threads :
    /\ InClosure(i)
    /\ map_writer = j
    /\ th[j].pc = "insert"
    /\ th[j].key # th[i].key

\* The step in which thread i's cleanup_at has run its closure on every
\* entry; the keys it saw with a state that has no last_touched.
CollectReturns(i) == th[i].pc = "collecting" /\ th'[i].pc = "cleanup_lock"
untouched_in_view(i) ==
  {k \in Keys : /\ is_some(th[i].view[k])
                /\ last_touched(params, buckets[th[i].view[k][1]].val) = None}

\* C36 as stated: a key whose state defines no last_touched (a bucket that
\* was never successfully updated) is treated as always fresh: it is never
\* collected or removed by cleanup or by cleanup_at, whatever min_age and
\* whatever explicit instant are passed.
C36_UntouchedNeverCollected ==
  [][\A i \in Threads :
       CollectReturns(i) => untouched_in_view(i) \cap th'[i].expireable = {}]_vars

\* C36, amended: for a key whose state defines no last_touched, what the
\* clock reads while cleanup runs stands in for it: cleanup_at(min_age, at)
\* collects the key exactly when that reading is before at - min_age
\* (saturating).  It is therefore never collected when the reading is at or
\* after `at`, as in cleanup(min_age), whose instant is a reading of the same
\* clock, nor when at <= min_age.
C36_UntouchedCollectedByClock ==
  [][\A i \in Threads :
       CollectReturns(i) =>
         \A k \in untouched_in_view(i) :
           /\ is_some(th'[i].now[k])
           /\ k \in th'[i].expireable
                <=> th'[i].now[k][1] < saturating_sub(th[i].at, th[i].min_age)
           /\ th'[i].now[k][1] >= th[i].at => k \notin th'[i].expireable
           /\ th[i].at <= th[i].min_age => k \notin th'[i].expireable]_vars

\* A cleanup_at has met two keys whose states have no last_touched: it has
\* left the one for which the clock read the cleanup's own instant and
\* removed the other, for which the clock read an earlier one.
C36_Witness ==
  LET t == th[TheCaller] IN
    /\ t.pc = "idle" /\ t.via = "cleanup"
    /\ \E k1, k2 \in Keys :
         /\ k1 # k2
         /\ is_some(t.now[k1]) /\ is_some(t.now[k2])
         /\ t.now[k1][1] = t.at
         /\ k1 \notin t.expireable /\ is_some(map_reader[k1])
         /\ k2 \in t.expireable /\ map_reader[k2] = None

\* The step in which thread i's cleanup_at removes the keys it collected
\* and returns.
RemovesCollected(i) == th[i].pc = "empty" /\ th'[i].pc = "idle"

\* C37: cleanup can lose cells under concurrency: there is an interleaving
\* in which a check on key k is admitted after cleanup_at has collected k as
\* expirable but before cleanup_at removes it; k is then removed, the
\* admitted cell is lost, and the next check of k starts from a fresh state.
\* As a property of every behaviour: cleanup_at removes every key it
\* collected, whatever has been admitted on it since, and a check that finds
\* no entry starts from a fresh state; the interleaving is C37_Witness.
C37_CleanupLosesCells ==
  /\ [](\A i \in Threads :
          (th[i].pc = "idle" /\ th[i].via = "inserted") =>
            th[i].from = Some(default_state(params)))
  /\ [][\A i \in Threads :
          RemovesCollected(i) =>
            /\ \A k \in th[i].expireable : map_reader'[k] = None
            /\ buckets' = buckets]_vars

\* cleanup_at has removed the one key that ever had an entry, having
\* collected it as expirable; in between a check by the other thread found
\* the entry and was admitted, leaving a state that is not expirable: the
\* entry is gone all the same.
C37_Witness ==
  \E i, j \in Threads : \E k \in Keys :
    /\ i # j
    /\ Len(buckets) = 1
    /\ th[i].pc = "idle" /\ th[i].via = "cleanup"
    /\ th[j].pc = "idle" /\ th[j].via = "found" /\ is_ok(th[j].res)
    /\ k \in th[i].expireable
    /\ map_reader[k] = None
    /\ LET s == buckets[th[i].view[k][1]].val IN
         /\ th[j].from # Some(s)
         /\ is_some(last_touched(params, s))
         /\ last_touched(params, s)[1] >= saturating_sub(th[i].at, th[i].min_age)

\* ---------------------------------------------------------------- ThreadsafeWrapper, equality
\* Threads compare state-cell handles with ThreadsafeWrapper::eq.  Handle 2
\* is a clone of handle 1 (#[derive(Clone)] clones the Arc: both point to
\* the same Mutex); every other handle was made by default() and has a
\* Mutex of its own.
NumEqHandles == 3
MaxEqCalls == 3

EqHandles == 1..NumEqHandles

\* The Arc<Mutex<T>> a handle's `data` points to, named by the handle it was
\* made for.
Arc_of(h) == IF h = 2 THEN 1 ELSE h

EqCells == {Arc_of(h) : h \in EqHandles}

\* The states a cell may hold: the default one, and the one after a first
\* check at the clock's origin.
EqStates(p) ==
  {default_state(p),
   committed(default_state(p), check_pass(p, default_state(p), "check_at", 1, 0))}

\* pc: where the thread is in eq; mine, other: the handles it was called
\* with (self and other); res: what its last eq returned; done: how many of
\* its calls have returned.
IdleComparer == [pc |-> "idle", mine |-> 0, other |-> 0, res |-> FALSE, done |-> 0]

InitEq ==
  /\ config \in CellConfigs
  /\ params = construct(config)
  /\ cell \in [EqCells -> [lock : {0}, data : EqStates(params)]]
  /\ th = [i \in Threads |-> IdleComparer]
  /\ calls = 0
  /\ state = default_state(params)
  /\ last = NoCall(params)
  /\ burst = NoBurst
  /\ hist = NoHist
  /\ NoKeys

\* a == b on thread i: if self as *const _ == other as *const _
\* { return true; }
EqCall(i, a, b) ==
  /\ th[i].pc = "idle"
  /\ calls < MaxEqCalls
  /\ th' = [th EXCEPT ![i] =
              IF a = b
                THEN [@ EXCEPT !.mine = a, !.other = b, !.res = TRUE, !.done = @ + 1]
                ELSE [@ EXCEPT !.pc = "lock_mine", !.mine = a, !.other = b]]
  /\ calls' = calls + 1
  /\ UNCHANGED <<config, params, state, last, burst, hist, cell, keyedVars>>

\* let mine = self.data.lock();
EqLockMine(i) ==
  LET c == Arc_of(th[i].mine) IN
    /\ th[i].pc = "lock_mine"
    /\ Mutex_lock(cell[c].lock)
    /\ cell' = [cell EXCEPT ![c].lock = i]
    /\ th' = [th EXCEPT ![i].pc = "lock_other"]
    /\ UNCHANGED <<config, params, seqVars, keyedVars>>

\* let other = other.data.lock();
EqLockOther(i) ==
  LET c == Arc_of(th[i].other) IN
    /\ th[i].pc = "lock_other"
    /\ Mutex_lock(cell[c].lock)
    /\ cell' = [cell EXCEPT ![c].lock = i]
    /\ th' = [th EXCEPT ![i].pc = "compare"]
    /\ UNCHANGED <<config, params, seqVars, keyedVars>>

\* *other == *mine, and both guards are dropped.
EqCompare(i) ==
  LET m == Arc_of(th[i].mine)
      o == Arc_of(th[i].other)
  IN
    /\ th[i].pc = "compare"
    /\ cell' = [c \in EqCells |->
                  IF c \in {m, o} THEN [cell[c] EXCEPT !.lock = MutexGuard_drop(@)]
                                  ELSE cell[c]]
    /\ th' = [th EXCEPT ![i] = [@ EXCEPT !.pc = "idle",
                                         !.res = (cell[o].data = cell[m].data),
                                         !.done = @ + 1]]
    /\ UNCHANGED <<config, params, seqVars, keyedVars>>

EqStep(i) == EqLockMine(i) \/ EqLockOther(i) \/ EqCompare(i)

NextEq ==
  \E i \in Threads :
    \/ (\E a, b \in EqHandles : EqCall(i, a, b))
    \/ EqLockMine(i)
    \/ EqLockOther(i)
    \/ EqCompare(i)

SpecEq == InitEq /\ [][NextEq]_vars

\* ---------------------------------------------------------------- claims, ThreadsafeWrapper, equality
\* C39: comparing two state-cell handles for equality
\* (ThreadsafeWrapper::eq) always returns: also when the two handles are
\* distinct clones sharing the same underlying cell, and when two threads
\* concurrently compare (a, b) and (b, a).  For every comparison to return,
\* whenever comparisons are in progress one of them must be able to take its
\* next step.
C39_EqAlwaysReturns ==
  (\E i \in Threads : th[i].pc # "idle") => (\E j \in Threads : ENABLED EqStep(j))
====
